---- MODULE Spec2Model ----
(***************************************************************************)
(* A model of src/src/iptv.py: IPTVChannelExtractor, which fetches two     *)
(* HTML pages, reads their table rows, filters / cleans / categorizes the  *)
(* channel names, joins them with the icon table and writes two playlists. *)
(*                                                                         *)
(* Text.  A Python str is a sequence of tokens.  A token is one character: *)
(* an ASCII character is written as itself, a CJK character as "uXXXX"     *)
(* (its code point), the line feed as "LF", the tab as "TAB".  The texts   *)
(* that the program never looks into (stream addresses, the parts of a    *)
(* URL, the literal parts of the playlist lines, the timestamp) are        *)
(* written as one token per run of characters; such a run holds no line    *)
(* break, and no white space when it comes from a table cell.              *)
(***************************************************************************)
EXTENDS Integers, Sequences, FiniteSets, TLC

(***************************************************************************)
(* Bounds of the model.                                                    *)
(***************************************************************************)
MaxNameLen == 4        \* longest enumerated channel name (NameSpec)
MaxChannelRows == 2    \* most <tr> rows of the channel page
MaxIconRows == 2       \* most <tr> rows of the icon page

(***************************************************************************)
(* Configuration set by __init__.                                          *)
(***************************************************************************)
base_url == <<"http:", "//", "epg.51zmt.top:8000">>

category_rules == <<
    \* 央视: CCTV CETV CGTN
    [cat |-> <<"u592E", "u89C6">>, kws |-> <<
        <<"C", "C", "T", "V">>,
        <<"C", "E", "T", "V">>,
        <<"C", "G", "T", "N">>
    >>],
    \* 卫视: 卫视
    [cat |-> <<"u536B", "u89C6">>, kws |-> <<
        <<"u536B", "u89C6">>
    >>],
    \* 少儿: 少儿 动画 卡通
    [cat |-> <<"u5C11", "u513F">>, kws |-> <<
        <<"u5C11", "u513F">>,
        <<"u52A8", "u753B">>,
        <<"u5361", "u901A">>
    >>],
    \* 电影: 电影 影院 院线 大片 爱浪漫 爱喜剧 爱科幻 爱院线 爱历史 爱悬疑 爱谍战
    [cat |-> <<"u7535", "u5F71">>, kws |-> <<
        <<"u7535", "u5F71">>,
        <<"u5F71", "u9662">>,
        <<"u9662", "u7EBF">>,
        <<"u5927", "u7247">>,
        <<"u7231", "u6D6A", "u6F2B">>,
        <<"u7231", "u559C", "u5267">>,
        <<"u7231", "u79D1", "u5E7B">>,
        <<"u7231", "u9662", "u7EBF">>,
        <<"u7231", "u5386", "u53F2">>,
        <<"u7231", "u60AC", "u7591">>,
        <<"u7231", "u8C0D", "u6218">>
    >>],
    \* 电视剧: 剧场 电视剧 热播 热门 经典 都市 谍战 都市剧场 热门剧场 经典剧场 爱旅行 精彩影视
    [cat |-> <<"u7535", "u89C6", "u5267">>, kws |-> <<
        <<"u5267", "u573A">>,
        <<"u7535", "u89C6", "u5267">>,
        <<"u70ED", "u64AD">>,
        <<"u70ED", "u95E8">>,
        <<"u7ECF", "u5178">>,
        <<"u90FD", "u5E02">>,
        <<"u8C0D", "u6218">>,
        <<"u90FD", "u5E02", "u5267", "u573A">>,
        <<"u70ED", "u95E8", "u5267", "u573A">>,
        <<"u7ECF", "u5178", "u5267", "u573A">>,
        <<"u7231", "u65C5", "u884C">>,
        <<"u7CBE", "u5F69", "u5F71", "u89C6">>
    >>],
    \* 四川: SCTV 四川 CDTV 熊猫 峨眉 成都
    [cat |-> <<"u56DB", "u5DDD">>, kws |-> <<
        <<"S", "C", "T", "V">>,
        <<"u56DB", "u5DDD">>,
        <<"C", "D", "T", "V">>,
        <<"u718A", "u732B">>,
        <<"u5CE8", "u7709">>,
        <<"u6210", "u90FD">>
    >>]
>>

\* 单音轨 画中画 热门 直播室 爱 92 测试 备用 临时 应急
filter_keywords == <<
    <<"u5355", "u97F3", "u8F68">>,
    <<"u753B", "u4E2D", "u753B">>,
    <<"u70ED", "u95E8">>,
    <<"u76F4", "u64AD", "u5BA4">>,
    <<"u7231">>,
    <<"9", "2">>,
    <<"u6D4B", "u8BD5">>,
    <<"u5907", "u7528">>,
    <<"u4E34", "u65F6">>,
    <<"u5E94", "u6025">>
>>

\* 超高清 高清 - 标清
cleanup_keywords == <<
    <<"u8D85", "u9AD8", "u6E05">>,
    <<"u9AD8", "u6E05">>,
    <<"-">>,
    <<"u6807", "u6E05">>
>>

\* 其他, the tag of a name that no category matches
OtherTag == <<"u5176", "u4ED6">>

(***************************************************************************)
(* Python's str operations.                                                *)
(***************************************************************************)
\* the characters str.strip() removes
Whitespace == {" ", "LF", "TAB", "u3000"}

\* `kw in text`
In(kw, text) ==
    \E i \in 0..(Len(text) - Len(kw)) : SubSeq(text, i + 1, i + Len(kw)) = kw

\* str.replace(old, new) for a non-empty old: leftmost, non-overlapping
RECURSIVE replace(_, _, _)
replace(s, old, new) ==
    IF Len(s) < Len(old) THEN s
    ELSE IF SubSeq(s, 1, Len(old)) = old
         THEN new \o replace(SubSeq(s, Len(old) + 1, Len(s)), old, new)
         ELSE <<Head(s)>> \o replace(Tail(s), old, new)

RECURSIVE lstrip(_)
lstrip(s) ==
    IF s # <<>> /\ Head(s) \in Whitespace THEN lstrip(Tail(s)) ELSE s

RECURSIVE rstrip(_)
rstrip(s) ==
    IF s # <<>> /\ s[Len(s)] \in Whitespace
    THEN rstrip(SubSeq(s, 1, Len(s) - 1)) ELSE s

\* str.strip()
strip(s) == rstrip(lstrip(s))

(***************************************************************************)
(* Pure methods of IPTVChannelExtractor.                                   *)
(***************************************************************************)
\* contains_any with all() in place of any()
contains_all(text, keywords) ==
    \A k \in 1..Len(keywords) : In(keywords[k], text)

contains_any(text, keywords) ==
    \E k \in 1..Len(keywords) : In(keywords[k], text)

\* the scan of category_rules from rule i on
RECURSIVE categorize_from(_, _)
categorize_from(name, i) ==
    IF i > Len(category_rules) THEN OtherTag
    ELSE IF contains_any(name, category_rules[i].kws)
         THEN category_rules[i].cat
         ELSE categorize_from(name, i + 1)

\* categorize where the last matching rule wins
RECURSIVE categorize_back(_, _)
categorize_back(name, i) ==
    IF i < 1 THEN OtherTag
    ELSE IF contains_any(name, category_rules[i].kws)
         THEN category_rules[i].cat
         ELSE categorize_back(name, i - 1)

categorize_last(name) == categorize_back(name, Len(category_rules))

categorize(name) == categorize_from(name, 1)

\* the cleanup loop of process_channels from keyword k on
RECURSIVE remove_keywords(_, _)
remove_keywords(name, k) ==
    IF k > Len(cleanup_keywords) THEN name
    ELSE remove_keywords(replace(name, cleanup_keywords[k], <<>>), k + 1)

\* the cleanup step without the final strip()
cleanup_nostrip(name) == remove_keywords(name, 1)

\* the cleanup step of process_channels: the replace loop, then strip()
cleanup(name) == strip(remove_keywords(name, 1))

(***************************************************************************)
(* The two pages.  A page is the sequence of its <tr> rows in document     *)
(* order.  A row of the channel page is the sequence of the texts of its   *)
(* <td> cells; a row of the icon page also carries the first <a href> of   *)
(* its first cell, when there is one.                                      *)
(***************************************************************************)
\* td.get_text(strip=True) of a cell holding one text node
get_text(td) == strip(td)

\* 序号, the first cell of the header row of the channel page
HeaderMark == <<"u5E8F", "u53F7">>

\* fetch without raise_for_status(): the body of an error status is returned
fetch_any_status(resp) ==
    IF resp.kind \in {"ok", "http_error"}
    THEN [is_none |-> FALSE, content |-> resp.content]
    ELSE [is_none |-> TRUE, content |-> <<>>]

\* session.get + raise_for_status: what fetch returns for a response
fetch(resp) ==
    IF resp.kind = "ok"
    THEN [is_none |-> FALSE, content |-> resp.content]
    ELSE [is_none |-> TRUE, content |-> <<>>]

\* the loop of extract_channels over the rows from row i on
RECURSIVE extract_rows(_, _)
extract_rows(rows, i) ==
    IF i > Len(rows) THEN <<>>
    ELSE LET tds == rows[i] IN
         IF tds = <<>> \/ get_text(tds[1]) = HeaderMark
         THEN extract_rows(rows, i + 1)
         ELSE IF Len(tds) < 3
              THEN extract_rows(rows, i + 1)
              ELSE << [id |-> get_text(tds[1]),
                       name |-> get_text(tds[2]),
                       address |-> get_text(tds[3])] >>
                   \o extract_rows(rows, i + 1)

\* extract_channels, given what fetch returned
extract_channels(fetched) ==
    IF fetched.is_none \/ fetched.content = <<>> THEN <<>>
    ELSE extract_rows(fetched.content, 1)

\* the loop of load_icons over the rows from row i on
RECURSIVE load_rows(_, _)
load_rows(rows, i) ==
    IF i > Len(rows) THEN <<>>
    ELSE LET tr == rows[i] IN
         IF Len(tr.tds) < 4
         THEN load_rows(rows, i + 1)
         ELSE IF ~tr.a.has_href \/ tr.a.href = <<"#">>
              THEN load_rows(rows, i + 1)
              ELSE << [id |-> get_text(tr.tds[4]),
                       name |-> get_text(tr.tds[3]),
                       icon |-> tr.a.href] >>
                   \o load_rows(rows, i + 1)

\* load_icons, given what fetch returned
load_icons(fetched) ==
    IF fetched.is_none \/ fetched.content = <<>> THEN <<>>
    ELSE load_rows(fetched.content, 1)

\* urllib.parse.urljoin(base, url) for a base without a path and a url that
\* is empty, a bare "#", an absolute URL, an absolute path or a relative path
urljoin(base, url) ==
    IF url = <<>> \/ url = <<"#">> THEN base
    ELSE IF Head(url) \in {"http:", "https:"} THEN url
    ELSE IF Head(url) = "/" THEN base \o url
    ELSE base \o <<"/">> \o url

\* the dict comprehension of build_icons_map over the items from item i on,
\* m being the dict built so far: a later item replaces an earlier one
RECURSIVE build_from(_, _, _)
build_from(icons, i, m) ==
    IF i > Len(icons) THEN m
    ELSE build_from(icons, i + 1,
             [n \in DOMAIN m \cup {icons[i].name} |->
                 IF n = icons[i].name THEN urljoin(base_url, icons[i].icon)
                 ELSE m[n]])

\* build_icons_map where the first item of a name is kept
RECURSIVE build_first_from(_, _, _)
build_first_from(icons, i, m) ==
    IF i > Len(icons) THEN m
    ELSE build_first_from(icons, i + 1,
             [n \in DOMAIN m \cup {icons[i].name} |->
                 IF n \in DOMAIN m THEN m[n]
                 ELSE urljoin(base_url, icons[i].icon)])

build_icons_map_first(icons) == build_first_from(icons, 1, << >>)

build_icons_map(icons) == build_from(icons, 1, << >>)

\* dict.get(key, default)
get(d, key, default) == IF key \in DOMAIN d THEN d[key] ELSE default

\* the loop of process_channels from channel i on, processed being the list
\* built so far
RECURSIVE process_from(_, _, _, _)
process_from(channels, icons_map, i, processed) ==
    IF i > Len(channels) THEN processed
    ELSE LET ch == channels[i] IN
         IF contains_any(ch.name, filter_keywords)
         THEN process_from(channels, icons_map, i + 1, processed)
         ELSE LET name == cleanup(ch.name) IN
              process_from(channels, icons_map, i + 1,
                  Append(processed,
                         [id |-> ch.id,
                          name |-> name,
                          address |-> ch.address,
                          tag |-> categorize(name),
                          icon |-> get(icons_map, name, <<>>)]))

\* process_channels that inserts each record at the front of the list
RECURSIVE process_front_from(_, _, _, _)
process_front_from(channels, icons_map, i, processed) ==
    IF i > Len(channels) THEN processed
    ELSE LET ch == channels[i] IN
         IF contains_any(ch.name, filter_keywords)
         THEN process_front_from(channels, icons_map, i + 1, processed)
         ELSE LET name == cleanup(ch.name) IN
              process_front_from(channels, icons_map, i + 1,
                  << [id |-> ch.id,
                      name |-> name,
                      address |-> ch.address,
                      tag |-> categorize(name),
                      icon |-> get(icons_map, name, <<>>)] >> \o processed)

process_channels_front(channels, icons_map) ==
    process_front_from(channels, icons_map, 1, <<>>)

process_channels(channels, icons_map) ==
    process_from(channels, icons_map, 1, <<>>)

(***************************************************************************)
(* write_m3u8.                                                             *)
(***************************************************************************)
\* os.getenv('LAN_ADDRESS', 'http://localhost')
getenv_LAN_ADDRESS(env) ==
    IF env.is_set THEN env.value ELSE <<"http://localhost">>

\* the header: #EXTM3U name="成都电信IPTV - {timestamp}" url-tvg="..."\n\n
header(timestamp) ==
    <<"#EXTM3U name=\"u6210u90FDu7535u4FE1IPTV - ">> \o timestamp \o
    <<"\" url-tvg=\"http://epg.51zmt.top:8000/e.xml,https://epg.112114.xyz/pp.xml\"",
      "LF", "LF">>

extinf(ch) ==
    <<"#EXTINF:-1 tvg-logo=\"">> \o ch.icon \o <<"\" tvg-id=\"">> \o ch.id \o
    <<"\" tvg-name=\"">> \o ch.name \o <<"\" group-title=\"">> \o ch.tag \o
    <<"\",">> \o ch.name \o <<"LF">>

stream_url(ch, use_lan_address, env) ==
    IF use_lan_address
    THEN getenv_LAN_ADDRESS(env) \o <<"/rtp/">> \o ch.address \o <<"LF">>
    ELSE <<"rtp://">> \o ch.address \o <<"LF">>

\* the texts that the f.write calls of write_m3u8 are given, in call order
RECURSIVE channel_writes(_, _, _, _)
channel_writes(channels, i, use_lan_address, env) ==
    IF i > Len(channels) THEN <<>>
    ELSE <<extinf(channels[i]), stream_url(channels[i], use_lan_address, env)>>
         \o channel_writes(channels, i + 1, use_lan_address, env)

writes(channels, use_lan_address, env, timestamp) ==
    <<header(timestamp)>> \o channel_writes(channels, 1, use_lan_address, env)

\* the text of a file after the first k of the writes ws
RECURSIVE written(_, _)
written(ws, k) ==
    IF k = 0 THEN <<>> ELSE written(ws, k - 1) \o ws[k]

\* write_m3u8 that catches the filesystem error and returns
write_m3u8_caught(channels, use_lan_address, env, timestamp, fault, k) ==
    LET ws == writes(channels, use_lan_address, env, timestamp) IN
    IF fault = "none"
    THEN [raised |-> FALSE, file |-> [exists |-> TRUE, text |-> written(ws, Len(ws))]]
    ELSE IF fault \in {"mkdir", "open"}
    THEN [raised |-> FALSE, file |-> [exists |-> FALSE, text |-> <<>>]]
    ELSE [raised |-> FALSE, file |-> [exists |-> TRUE, text |-> written(ws, k)]]

\* write_m3u8 under a filesystem fault: "none", "mkdir" (the directory
\* cannot be created), "open" (the file cannot be opened), or "write" (the
\* write after the first k writes fails).  raised tells whether the
\* exception leaves write_m3u8.
write_m3u8(channels, use_lan_address, env, timestamp, fault, k) ==
    LET ws == writes(channels, use_lan_address, env, timestamp) IN
    IF fault = "none"
    THEN [raised |-> FALSE, file |-> [exists |-> TRUE, text |-> written(ws, Len(ws))]]
    ELSE IF fault \in {"mkdir", "open"}
    THEN [raised |-> TRUE, file |-> [exists |-> FALSE, text |-> <<>>]]
    ELSE [raised |-> TRUE, file |-> [exists |-> TRUE, text |-> written(ws, k)]]

(***************************************************************************)
(* The inputs of a run: the responses to the two GETs, the environment,    *)
(* the clock and the faults of the filesystem.                             *)
(***************************************************************************)
\* rows that the channel page may hold
ChannelRowPool == {
    \* 1 | CCTV-1 高清 | 239.1.1.1:5000
    << <<"1">>, <<"C", "C", "T", "V", "-", "1", " ", "u9AD8", "u6E05">>,
       <<"239.1.1.1:5000">> >>,
    \* 2 | 测试频道 | 239.1.1.2:5000
    << <<"2">>, <<"u6D4B", "u8BD5", "u9891", "u9053">>, <<"239.1.1.2:5000">> >>,
    \* 3 | 四川卫视-超高清 | 239.1.1.3:5000
    << <<"3">>, <<"u56DB", "u5DDD", "u536B", "u89C6", "-", "u8D85", "u9AD8", "u6E05">>,
       <<"239.1.1.3:5000">> >>,
    \* the header row: 序号 | 频道名称 | 地址, with white space around the mark
    << <<" ", "u5E8F", "u53F7", "LF">>, <<"u9891", "u9053", "u540D", "u79F0">>,
       <<"u5730", "u5740">> >>,
    \* 4 | 高-清 | 239.1.1.4:5000
    << <<"4">>, <<"u9AD8", "-", "u6E05">>, <<"239.1.1.4:5000">> >>,
    \* 5 | CCTV<line feed>5 | 239.1.1.5:5000
    << <<"5">>, <<"C", "C", "T", "V", "LF", "5">>, <<"239.1.1.5:5000">> >>,
    \* a row of two cells
    << <<"6">>, <<"C", "C", "T", "V", "-", "6">> >>,
    \* a row without <td> cells
    << >>,
    \* 8 | CCTV-2 标清 | 239.1.1.8:5000, each with white space around
    << <<" ", "8", " ">>, <<" ", "C", "C", "T", "V", "-", "2", " ", "u6807", "u6E05", " ">>,
       <<"LF", "239.1.1.8:5000", " ">> >>
}

NoLink == [has_href |-> FALSE, href |-> <<>>]

Link(href) == [has_href |-> TRUE, href |-> href]

\* rows that the icon page may hold: link | (cell) | name | id
IconRowPool == {
    \* CCTV1 with a relative path
    [tds |-> << <<>>, <<>>, <<"C", "C", "T", "V", "1">>, <<"1">> >>,
     a |-> Link(<<"static/cctv1.png">>)],
    \* CCTV1 again, with an absolute path
    [tds |-> << <<>>, <<>>, <<" ", "C", "C", "T", "V", "1", " ">>, <<"101">> >>,
     a |-> Link(<<"/", "logo/cctv1.png">>)],
    \* 四川卫视 with an absolute URL
    [tds |-> << <<>>, <<>>, <<"u56DB", "u5DDD", "u536B", "u89C6">>, <<"3">> >>,
     a |-> Link(<<"https:", "//", "cdn.example", "/", "sc.png">>)],
    \* CCTV-1, the name before cleanup
    [tds |-> << <<>>, <<>>, <<"C", "C", "T", "V", "-", "1">>, <<"1">> >>,
     a |-> Link(<<"static/cctv-1.png">>)],
    \* CCTV1 with the placeholder link
    [tds |-> << <<>>, <<>>, <<"C", "C", "T", "V", "1">>, <<"1">> >>,
     a |-> Link(<<"#">>)],
    \* 四川卫视 without a link
    [tds |-> << <<>>, <<>>, <<"u56DB", "u5DDD", "u536B", "u89C6">>, <<"3">> >>,
     a |-> NoLink],
    \* a row of three cells
    [tds |-> << <<>>, <<>>, <<"C", "C", "T", "V", "1">> >>,
     a |-> Link(<<"static/cctv1.png">>)]
}

\* the sequences of at most max elements of pool
Pages(pool, max) == UNION {[1..n -> pool] : n \in 0..max}

\* the outcomes of session.get: a success, an error status (with a body),
\* a timeout or a connection error
Responses(pages) ==
    {[kind |-> k, content |-> p] : k \in {"ok", "http_error"}, p \in pages}
    \cup {[kind |-> k, content |-> <<>>] : k \in {"timeout", "connection_error"}}

\* LAN_ADDRESS: unset, or set
Envs == {[is_set |-> FALSE, value |-> <<>>],
         [is_set |-> TRUE, value |-> <<"http://192.168.1.1:4022">>]}

\* values of strict_rfc3339.now_to_rfc3339_utcoffset()
Timestamps == {<<"2024-01-01T08:00:00+08:00">>, <<"2024-01-01T08:00:01+08:00">>}

Faults == {"none", "mkdir", "open", "write"}

NoFile == [exists |-> FALSE, text |-> <<>>]

(***************************************************************************)
(* The inputs of the name pipeline (NameSpec): every name of at most       *)
(* MaxNameLen characters over NameAlphabet, and the names of the rows      *)
(* above.                                                                  *)
(***************************************************************************)
\* 超 高 清 - 标 (cleanup), space, 卫 视 四 川 C T V (categories), 爱 (filter)
NameAlphabet == {"u8D85", "u9AD8", "u6E05", "-", "u6807", " ",
                 "u536B", "u89C6", "u56DB", "u5DDD", "C", "T", "V",
                 "u7231"}

PoolNames == {r[2] : r \in {q \in ChannelRowPool : Len(q) >= 2}}

Names == UNION {[1..n -> NameAlphabet] : n \in 0..MaxNameLen} \cup PoolNames

(***************************************************************************)
(* State.                                                                  *)
(***************************************************************************)
VARIABLES
    pc,            \* the statement of run() that comes next
    env,           \* the environment variable LAN_ADDRESS
    channel_resp,  \* the outcome of the GET of the channel page
    icon_resp,     \* the outcome of the GET of the icon page
    raw_channels,  \* run: raw_channels
    icons,         \* run: icons
    icons_map,     \* run: icons_map
    processed,     \* run: processed
    files,         \* the two output files
    fs_fault,      \* which write_m3u8 call met a filesystem fault
    stage,         \* name pipeline: the step that comes next
    raw_name,      \* name pipeline: ch['name']
    name,          \* name pipeline: name
    tag,           \* name pipeline: the tag
    recleaned      \* name pipeline: the cleanup of name

runVars == <<pc, env, channel_resp, icon_resp, raw_channels, icons,
             icons_map, processed, files, fs_fault>>

nameVars == <<stage, raw_name, name, tag, recleaned>>

vars == <<pc, env, channel_resp, icon_resp, raw_channels, icons,
          icons_map, processed, files, fs_fault,
          stage, raw_name, name, tag, recleaned>>

RunIdle ==
    /\ channel_resp = "none"
    /\ icon_resp = "none"
    /\ raw_channels = <<>>
    /\ icons = <<>>
    /\ icons_map = << >>
    /\ processed = <<>>
    /\ files = [lan |-> NoFile, rtp |-> NoFile]
    /\ fs_fault = "none"

NameIdle ==
    /\ name = <<>>
    /\ tag = <<>>
    /\ recleaned = <<>>

\* the state after IPTVChannelExtractor() and before run()
Init ==
    /\ pc = "start"
    /\ env \in Envs
    /\ RunIdle
    /\ stage = "idle"
    /\ raw_name = <<>>
    /\ NameIdle

(***************************************************************************)
(* run(), one action per statement.                                        *)
(***************************************************************************)
\* raw_channels = self.extract_channels()
ExtractChannels ==
    /\ pc = "start"
    /\ \E resp \in Responses(Pages(ChannelRowPool, MaxChannelRows)) :
          /\ channel_resp' = resp.kind
          /\ raw_channels' = extract_channels(fetch(resp))
    /\ pc' = "load_icons"
    /\ UNCHANGED <<env, icon_resp, icons, icons_map, processed, files, fs_fault>>
    /\ UNCHANGED nameVars

\* icons = self.load_icons()
LoadIcons ==
    /\ pc = "load_icons"
    /\ \E resp \in Responses(Pages(IconRowPool, MaxIconRows)) :
          /\ icon_resp' = resp.kind
          /\ icons' = load_icons(fetch(resp))
    /\ pc' = "build_icons_map"
    /\ UNCHANGED <<env, channel_resp, raw_channels, icons_map, processed, files, fs_fault>>
    /\ UNCHANGED nameVars

\* icons_map = self.build_icons_map(icons)
BuildIconsMap ==
    /\ pc = "build_icons_map"
    /\ icons_map' = build_icons_map(icons)
    /\ pc' = "process_channels"
    /\ UNCHANGED <<env, channel_resp, icon_resp, raw_channels, icons, processed, files, fs_fault>>
    /\ UNCHANGED nameVars

\* processed = self.process_channels(raw_channels, icons_map)
ProcessChannels ==
    /\ pc = "process_channels"
    /\ processed' = process_channels(raw_channels, icons_map)
    /\ pc' = "write_lan"
    /\ UNCHANGED <<env, channel_resp, icon_resp, raw_channels, icons, icons_map, files, fs_fault>>
    /\ UNCHANGED nameVars

\* self.write_m3u8(processed, output_with_lan, use_lan_address=True)
WriteLan ==
    /\ pc = "write_lan"
    /\ \E timestamp \in Timestamps, fault \in Faults, k \in 0..(2 * Len(processed)) :
          /\ fault = "write" \/ k = 0
          /\ LET res == write_m3u8(processed, TRUE, env, timestamp, fault, k) IN
             /\ files' = [files EXCEPT !.lan = res.file]
             /\ pc' = IF res.raised THEN "crashed" ELSE "write_rtp"
          /\ fs_fault' = IF fault = "none" THEN fs_fault ELSE "lan"
    /\ UNCHANGED <<env, channel_resp, icon_resp, raw_channels, icons, icons_map, processed>>
    /\ UNCHANGED nameVars

\* self.write_m3u8(processed, output_native_rtp, use_lan_address=False)
WriteRtp ==
    /\ pc = "write_rtp"
    /\ \E timestamp \in Timestamps, fault \in Faults, k \in 0..(2 * Len(processed)) :
          /\ fault = "write" \/ k = 0
          /\ LET res == write_m3u8(processed, FALSE, env, timestamp, fault, k) IN
             /\ files' = [files EXCEPT !.rtp = res.file]
             /\ pc' = IF res.raised THEN "crashed" ELSE "done"
          /\ fs_fault' = IF fault = "none" THEN fs_fault ELSE "rtp"
    /\ UNCHANGED <<env, channel_resp, icon_resp, raw_channels, icons, icons_map, processed>>
    /\ UNCHANGED nameVars

Next ==
    \/ ExtractChannels
    \/ LoadIcons
    \/ BuildIconsMap
    \/ ProcessChannels
    \/ WriteLan
    \/ WriteRtp

Spec == Init /\ [][Next]_vars

(***************************************************************************)
(* The body of the loop of process_channels on one name, step by step,     *)
(* and the cleanup applied once more to its result.                        *)
(***************************************************************************)
NameInit ==
    /\ pc = "idle"
    /\ env = [is_set |-> FALSE, value |-> <<>>]
    /\ RunIdle
    /\ stage = "filter"
    /\ raw_name \in Names
    /\ NameIdle

\* if self.contains_any(name, self.filter_keywords): continue
FilterName ==
    /\ stage = "filter"
    /\ stage' = IF contains_any(raw_name, filter_keywords) THEN "dropped" ELSE "cleanup"
    /\ UNCHANGED <<raw_name, name, tag, recleaned>>
    /\ UNCHANGED runVars

\* for kw in self.cleanup_keywords: ...; name = name.strip()
CleanupName ==
    /\ stage = "cleanup"
    /\ name' = cleanup(raw_name)
    /\ stage' = "categorize"
    /\ UNCHANGED <<raw_name, tag, recleaned>>
    /\ UNCHANGED runVars

\* 'tag': self.categorize(name)
CategorizeName ==
    /\ stage = "categorize"
    /\ tag' = categorize(name)
    /\ stage' = "appended"
    /\ UNCHANGED <<raw_name, name, recleaned>>
    /\ UNCHANGED runVars

\* the cleanup step applied to the cleaned name
CleanupAgain ==
    /\ stage = "appended"
    /\ recleaned' = cleanup(name)
    /\ stage' = "recleaned"
    /\ UNCHANGED <<raw_name, name, tag>>
    /\ UNCHANGED runVars

NameNext ==
    \/ FilterName
    \/ CleanupName
    \/ CategorizeName
    \/ CleanupAgain

NameSpec == NameInit /\ [][NameNext]_vars

(***************************************************************************)
(* Properties.                                                             *)
(***************************************************************************)
\* kw occurs in t as a substring
Occurs(kw, t) ==
    \E i \in 1..Len(t) :
        /\ i + Len(kw) - 1 <= Len(t)
        /\ \A j \in 1..Len(kw) : t[i + j - 1] = kw[j]

\* process_channels has returned
AfterProcess == pc \in {"write_lan", "write_rtp", "done", "crashed"}

\* the number of lines of text, split at line feeds, that hold a character
\* other than white space; seen tells whether the current line holds one
RECURSIVE NonBlankFrom(_, _)
NonBlankFrom(text, seen) ==
    IF text = <<>> THEN (IF seen THEN 1 ELSE 0)
    ELSE IF Head(text) = "LF"
         THEN (IF seen THEN 1 ELSE 0) + NonBlankFrom(Tail(text), FALSE)
         ELSE NonBlankFrom(Tail(text), seen \/ Head(text) \notin Whitespace)

NonBlankLines(text) == NonBlankFrom(text, FALSE)

\* a is a subsequence of b
RECURSIVE IsSubsequence(_, _)
IsSubsequence(a, b) ==
    IF a = <<>> THEN TRUE
    ELSE IF b = <<>> THEN FALSE
    ELSE IF Head(a) = Head(b) THEN IsSubsequence(Tail(a), Tail(b))
    ELSE IsSubsequence(a, Tail(b))

Ids(records) == [i \in 1..Len(records) |-> records[i].id]

\* the raw record of the row 1 | CCTV-1 高清 | 239.1.1.1:5000
Scenario1 == [id |-> <<"1">>,
              name |-> <<"C", "C", "T", "V", "-", "1", " ", "u9AD8", "u6E05">>,
              address |-> <<"239.1.1.1:5000">>]

\* the icon index has no entry for the name of Scenario1, raw or cleaned
Scenario1NoIcon ==
    \A n \in {Scenario1.name, <<"C", "C", "T", "V", "-", "1">>,
              <<"C", "C", "T", "V", "1">>} : n \notin DOMAIN icons_map

\* C1, as stated: processing the row 1 | CCTV-1 高清 | 239.1.1.1:5000 with no
\* icon match yields exactly one record, named CCTV-1, tagged 央视, with the
\* empty icon.
C1_Stated ==
    (AfterProcess /\ raw_channels = <<Scenario1>> /\ Scenario1NoIcon)
    => /\ Len(processed) = 1
       /\ processed[1].name = <<"C", "C", "T", "V", "-", "1">>
       /\ processed[1].tag = <<"u592E", "u89C6">>
       /\ processed[1].icon = <<>>

\* C1, amended: processing the row 1 | CCTV-1 高清 | 239.1.1.1:5000 with no
\* icon match yields exactly one record, named CCTV1 (the cleanup keyword
\* "-" is removed too), tagged 央视, with the empty icon.
C1_Scenario1 ==
    (AfterProcess /\ raw_channels = <<Scenario1>> /\ Scenario1NoIcon)
    => /\ Len(processed) = 1
       /\ processed[1].name = <<"C", "C", "T", "V", "1">>
       /\ processed[1].tag = <<"u592E", "u89C6">>
       /\ processed[1].icon = <<>>
       /\ processed[1].id = <<"1">>
       /\ processed[1].address = <<"239.1.1.1:5000">>

C1_Witness ==
    /\ pc = "write_lan"
    /\ raw_channels = <<Scenario1>>
    /\ Scenario1NoIcon
    /\ icons # <<>>
    /\ Len(processed) = 1

\* C2: cleanup is idempotent: the cleanup of a cleaned name is that name.
C2_Idempotent == stage = "recleaned" => recleaned = name

\* C3: no record returned by process_channels has a name in which a cleanup
\* keyword occurs.
C3_NoCleanupKeyword ==
    AfterProcess =>
        \A i \in 1..Len(processed) : \A k \in 1..Len(cleanup_keywords) :
            ~Occurs(cleanup_keywords[k], processed[i].name)

\* no filter keyword occurs in the raw name of ch
NotFiltered(ch) ==
    \A k \in 1..Len(filter_keywords) : ~Occurs(filter_keywords[k], ch.name)

\* 测试频道
TestChannelName == <<"u6D4B", "u8BD5", "u9891", "u9053">>

\* C4: the processed records are, one for one and in order, the raw records
\* whose raw name holds no filter keyword; a record whose raw name holds one
\* (测试频道) is dropped.
C4_FilterIff ==
    AfterProcess =>
        LET kept == SelectSeq(raw_channels, NotFiltered) IN
        /\ Len(processed) = Len(kept)
        /\ \A i \in 1..Len(kept) :
              /\ processed[i].id = kept[i].id
              /\ processed[i].address = kept[i].address
        /\ \A i \in 1..Len(processed) : processed[i].name # TestChannelName

C4_Witness ==
    /\ pc = "write_lan"
    /\ Len(raw_channels) = 2
    /\ raw_channels[1].name = TestChannelName
    /\ Len(processed) = 1
    /\ processed[1].id = raw_channels[2].id

\* the labels in declared order: 央视 卫视 少儿 电影 电视剧 四川
DeclaredLabels == <<
    <<"u592E", "u89C6">>, <<"u536B", "u89C6">>, <<"u5C11", "u513F">>,
    <<"u7535", "u5F71">>, <<"u7535", "u89C6", "u5267">>, <<"u56DB", "u5DDD">> >>

\* the declared rules of which a trigger occurs in n
Matching(n) ==
    {i \in 1..Len(category_rules) :
        \E k \in 1..Len(category_rules[i].kws) :
            Occurs(category_rules[i].kws[k], n)}

\* 四川卫视-超高清
Scenario3Name == <<"u56DB", "u5DDD", "u536B", "u89C6", "-", "u8D85", "u9AD8", "u6E05">>

\* C5: the tag of a processed name is the label of the first category, in the
\* order 央视 卫视 少儿 电影 电视剧 四川, of which a trigger occurs in the
\* cleaned name, and 其他 when there is none; 四川卫视-超高清 is cleaned to
\* 四川卫视 and tagged 卫视.
C5_FirstMatch ==
    stage \in {"appended", "recleaned"} =>
        /\ IF Matching(name) = {}
           THEN tag = <<"u5176", "u4ED6">>
           ELSE \E i \in Matching(name) :
                   /\ \A j \in Matching(name) : i <= j
                   /\ tag = DeclaredLabels[i]
        /\ raw_name = Scenario3Name =>
              /\ name = <<"u56DB", "u5DDD", "u536B", "u89C6">>
              /\ tag = <<"u536B", "u89C6">>

C5_Witness ==
    /\ stage = "appended"
    /\ raw_name = Scenario3Name
    /\ Cardinality(Matching(name)) = 2
    /\ tag = <<"u536B", "u89C6">>

\* C6: the ids of the processed records are a subsequence of the ids of the
\* raw records, and there are no more processed records than raw ones.
C6_Subsequence ==
    /\ IsSubsequence(Ids(processed), Ids(raw_channels))
    /\ Len(processed) <= Len(raw_channels)

C6_Witness ==
    /\ pc = "write_lan"
    /\ Len(raw_channels) = 2
    /\ Len(processed) = 2
    /\ processed[1].id # processed[2].id

ChannelFetchFailed ==
    channel_resp \in {"http_error", "timeout", "connection_error"}

\* the file holds the header and nothing else
HeaderOnly(file) ==
    /\ file.exists
    /\ \E timestamp \in Timestamps : file.text = header(timestamp)
    /\ NonBlankLines(file.text) = 1

\* C7: when the GET of the channel page fails, the channel list is empty,
\* the run goes on (nothing but a filesystem fault stops it), and when it
\* completes both playlists hold the header and no channel entry.
C7_FetchFailure ==
    ChannelFetchFailed =>
        /\ raw_channels = <<>>
        /\ processed = <<>>
        /\ pc = "crashed" => fs_fault # "none"
        /\ pc \in {"write_rtp", "done"} => HeaderOnly(files.lan)
        /\ pc = "done" => HeaderOnly(files.rtp)

C7_Witness ==
    /\ ChannelFetchFailed
    /\ pc = "done"
    /\ icons # <<>>
    /\ HeaderOnly(files.lan)
    /\ HeaderOnly(files.rtp)

\* C8: the text written by a write_m3u8 call that returned holds exactly
\* 2 * count(channels) + 1 non-blank lines, in either address mode.
C8_LineCount ==
    /\ pc \in {"write_rtp", "done"} =>
          NonBlankLines(files.lan.text) = 2 * Len(processed) + 1
    /\ pc = "done" =>
          NonBlankLines(files.rtp.text) = 2 * Len(processed) + 1

\* C9: a filesystem fault in write_m3u8 ends the run there: after a fault
\* the run has stopped without completing, and after a fault in the write of
\* the LAN playlist the native-RTP playlist has not been written.
C9_FilesystemFatal ==
    /\ fs_fault # "none" => pc = "crashed"
    /\ fs_fault = "lan" => ~files.rtp.exists

C9_Witness ==
    /\ fs_fault = "lan"
    /\ pc = "crashed"
    /\ processed # <<>>
    /\ files.lan.exists

\* the resolved URL of the last item of icons named n, the empty text when
\* there is none
LastIcon(n) ==
    LET I == {i \in 1..Len(icons) : icons[i].name = n} IN
    IF I = {} THEN <<>>
    ELSE urljoin(base_url, icons[CHOOSE i \in I : \A j \in I : j <= i].icon)

====
